---- MODULE Spec2Model ----
\* State-machine model of static/script.js: the recommendation form's submit
\* handler (an async function with two await points), the card renderer it
\* calls, and the favorite toggle (an async function with two await points).
\* Every handler segment between two awaits is one atomic action, because the
\* browser runs a listener to completion or to its next await.
EXTENDS Integers, Sequences, FiniteSets, TLC

\* ---------------------------------------------------------------- bounds
MaxLen == 1        \* longest text typed into the movie-name field
MaxReq == 2        \* valid submits (each issues one /recommend request)
MaxMovies == 2     \* longest movie list in a /recommend response
MaxToggles == 2    \* calls of toggleFav
NumButtons == 2    \* favorite buttons on the page

\* ---------------------------------------------------------------- values
\* Text of the movie-name field: a sequence of characters.
Chars == {" ", "a"}
Genres == {"", "Action"}          \* values of the genre <select>; "" = any
Languages == {"", "en"}           \* values of the language <select>; "" = any

RECURSIVE StringsUpTo(_)
StringsUpTo(n) ==
    IF n = 0 THEN {<<>>}
    ELSE LET shorter == StringsUpTo(n - 1)
         IN  shorter \cup {Append(s, c) : s \in {t \in shorter : Len(t) = n - 1}, c \in Chars}

InputTexts == StringsUpTo(MaxLen)

\* Mutant: no trimming at all.
TrimNothing(s) == s

\* String.prototype.trim: strips the whitespace at both ends.
RECURSIVE TrimStart(_)
TrimStart(s) == IF s # <<>> /\ Head(s) = " " THEN TrimStart(Tail(s)) ELSE s

RECURSIVE TrimEnd(_)
TrimEnd(s) ==
    IF s # <<>> /\ s[Len(s)] = " " THEN TrimEnd(SubSeq(s, 1, Len(s) - 1)) ELSE s

Trim(s) == TrimEnd(TrimStart(s))

\* ------------------------------------------------------- JavaScript values
\* A parsed JSON value as the handler sees it: its type, its length
\* (.length of an array or a string) and, for an array, its elements.
Undefined == [t |-> "undefined", len |-> 0, items |-> <<>>]
ArrayOf(items) == [t |-> "array", len |-> Len(items), items |-> items]
StringOfLen(n) == [t |-> "string", len |-> n, items |-> <<>>]

\* JavaScript truthiness of the values above and of true/false/undefined.
Truthy(v) ==
    CASE v.t = "true" -> TRUE
      [] v.t = "false" -> FALSE
      [] v.t = "undefined" -> FALSE
      [] v.t = "array" -> TRUE
      [] v.t = "string" -> v.len > 0

JsTrue == [t |-> "true", len |-> 0, items |-> <<>>]
JsFalse == [t |-> "false", len |-> 0, items |-> <<>>]

\* A movie of the response to request r; NullMovie is a JSON null element.
NullMovie == [req |-> 0, id |-> 0]
Movie(r, k) == [req |-> r, id |-> k]

\* The movie lists a response to request r can carry: n movies in order,
\* at most one of them replaced by a null element.
MovieLists(r) ==
    {[i \in 1..n |-> IF i = bad THEN NullMovie ELSE Movie(r, i)] :
        n \in 0..MaxMovies, bad \in 0..MaxMovies}

\* The JSON bodies the /recommend service can answer request r with:
\* a JSON null, or an object with any of not_found, suggestions,
\* recommendations present, absent or of an unexpected type.
NullBody ==
    [kind |-> "null", not_found |-> Undefined,
     suggestions |-> Undefined, recommendations |-> Undefined]

ListValues(r) == {Undefined, StringOfLen(1)} \cup {ArrayOf(l) : l \in MovieLists(r)}

Bodies(r) ==
    {NullBody}
    \cup {[kind |-> "object", not_found |-> JsTrue,
           suggestions |-> s, recommendations |-> Undefined] : s \in ListValues(r)}
    \cup {[kind |-> "object", not_found |-> JsTrue,
           suggestions |-> ArrayOf(<<Movie(r, 1)>>),
           recommendations |-> ArrayOf(<<Movie(r, 1)>>)]}
    \cup {[kind |-> "object", not_found |-> JsFalse,
           suggestions |-> Undefined, recommendations |-> rc] :
            rc \in ListValues(r) \cup {StringOfLen(0)}}
    \cup {[kind |-> "object", not_found |-> Undefined,
           suggestions |-> s, recommendations |-> rc] :
            s \in {Undefined, ArrayOf(<<Movie(r, 1)>>)},
            rc \in {Undefined, ArrayOf(<<Movie(r, 1)>>)}}

\* The bodies per request, as a table.
BodiesOf == [r \in 1..MaxReq |-> Bodies(r)]

\* ------------------------------------------------------------ createCard
\* createCard(movie): reading movie.genres of a null movie throws a TypeError;
\* otherwise the card element is built from the movie.
CreateCardThrows(movie) == movie = NullMovie
createCard(movie) == [movie |-> movie]

\* value.forEach(m => grid.appendChild(createCard(m))): the cards appended
\* before the loop ends or throws, and whether it throws. forEach is not a
\* function on undefined or on a string, so the call itself throws there.
FirstBad(items) ==
    IF \E i \in 1..Len(items) : CreateCardThrows(items[i])
    THEN CHOOSE i \in 1..Len(items) :
            /\ CreateCardThrows(items[i])
            /\ \A j \in 1..(i - 1) : ~CreateCardThrows(items[j])
    ELSE Len(items) + 1

ForEachThrows(v) == v.t # "array" \/ FirstBad(v.items) <= Len(v.items)

\* Mutant: the loop that starts at the second element.
ForEachSkipsFirst(v) ==
    IF v.t # "array" THEN <<>>
    ELSE [i \in 1..(FirstBad(v.items) - 2) |-> createCard(v.items[i + 1])]

ForEachAppended(v) ==
    IF v.t # "array" THEN <<>>
    ELSE [i \in 1..(FirstBad(v.items) - 1) |-> createCard(v.items[i])]

\* ------------------------------------------------------------ the title
\* The template literals of the recommendations branch, as a sequence of
\* pieces: the literal fragments, the characters of the name, the genre and
\* the language.
Title(movieName, genre, language) ==
    <<"Movies similar to \"">> \o movieName \o <<"\"">>
    \o (IF genre # "" THEN <<" in ", genre>> ELSE <<>>)
    \o (IF language # "" THEN <<" (", language, ")">> ELSE <<>>)

\* ---------------------------------------------------------------- state
VARIABLES
    movieInput,       \* movieInput.value
    genreSelect,      \* genreSelect.value
    languageSelect,   \* languageSelect.value
    loading,          \* loading.style.display
    notFound,         \* notFound.style.display
    results,          \* results.style.display
    featuredSection,  \* TRUE iff the page has a #featuredSection element
    featured,         \* featuredSection.style.display
    suggestionsGrid,  \* children of #suggestionsGrid
    resultsGrid,      \* children of #resultsGrid
    resultsTitle,     \* resultsTitle.textContent
    lastAlert,        \* text of the latest alert(), "" if none yet
    loggedError,      \* what the latest console.error of line 67 logged, "" if none yet
    reqs,             \* the invocations of the submit handler that sent a request
    favorited,        \* per favorite button: has it the class 'favorited'
    toggles           \* the invocations of toggleFav

searchVars ==
    <<movieInput, genreSelect, languageSelect, loading, notFound, results,
      featuredSection, featured, suggestionsGrid, resultsGrid, resultsTitle,
      lastAlert, loggedError, reqs>>

favVars == <<favorited, toggles>>

vars == <<searchVars, favVars>>

AlertEnterName == "Please enter a movie name"
AlertNoRecs == "No recommendations found"
AlertFailed == "Failed to get recommendations"

\* One invocation of the submit handler: the query it captured in its
\* closure (movieName, genre, language) and where it stands. stage is
\* "fetch" (awaiting fetch), "hung" (the fetch never settles), "json"
\* (awaiting response.json()) or "done". A finished invocation has released
\* its closure.
Pending(movieName, genre, language) ==
    [movieName |-> movieName, genre |-> genre, language |-> language,
     stage |-> "fetch"]

Finished == [movieName |-> <<>>, genre |-> "", language |-> "", stage |-> "done"]

Buttons == 1..NumButtons

\* The page once the script has run (lines 1-11, 149-150, 180), with the
\* given form contents: the spinner and the result panels hidden, the
\* featured section (if the page has one) shown, the grids empty.
PageLoad(hasFeatured, fav, name, genre, language) ==
    /\ movieInput = name
    /\ genreSelect = genre
    /\ languageSelect = language
    /\ loading = "none"
    /\ notFound = "none"
    /\ results = "none"
    /\ featuredSection = hasFeatured
    /\ featured = (IF hasFeatured THEN "block" ELSE "none")
    /\ suggestionsGrid = <<>>
    /\ resultsGrid = <<>>
    /\ resultsTitle = <<>>
    /\ lastAlert = ""
    /\ loggedError = ""
    /\ reqs = <<>>
    /\ favorited = fav
    /\ toggles = <<>>

NoneFavorited == [b \in Buttons |-> FALSE]

Init == \E hasFeatured \in BOOLEAN : PageLoad(hasFeatured, NoneFavorited, <<>>, "", "")

\* ------------------------------------------------------- the user's edits
EditMovie ==
    /\ \E text \in InputTexts : movieInput' = text
    /\ UNCHANGED <<genreSelect, languageSelect, loading, notFound, results,
                   featuredSection, featured, suggestionsGrid, resultsGrid,
                   resultsTitle, lastAlert, loggedError, reqs, favVars>>

EditGenre ==
    /\ \E g \in Genres : genreSelect' = g
    /\ UNCHANGED <<movieInput, languageSelect, loading, notFound, results,
                   featuredSection, featured, suggestionsGrid, resultsGrid,
                   resultsTitle, lastAlert, loggedError, reqs, favVars>>

EditLanguage ==
    /\ \E l \in Languages : languageSelect' = l
    /\ UNCHANGED <<movieInput, genreSelect, loading, notFound, results,
                   featuredSection, featured, suggestionsGrid, resultsGrid,
                   resultsTitle, lastAlert, loggedError, reqs, favVars>>

\* ------------------------------------------------ the submit handler
\* Mutant: the loading state that forgets to hide the results panel.
EnterLoadingKeepsResults ==
    /\ loading' = "flex"
    /\ notFound' = "none"
    /\ UNCHANGED results
    /\ featured' = IF featuredSection THEN "none" ELSE featured

\* Lines 25-28: the loading state.
EnterLoading ==
    /\ loading' = "flex"
    /\ notFound' = "none"
    /\ results' = "none"
    /\ featured' = IF featuredSection THEN "none" ELSE featured

\* Mutant: a new request aborts the requests in flight.
SendRequestAbortsEarlier(movieName, genre, language) ==
    reqs' = Append([r \in 1..Len(reqs) |->
                        IF reqs[r].stage \in {"fetch", "json"} THEN Finished ELSE reqs[r]],
                   Pending(movieName, genre, language))

\* Lines 31-40: the request is sent and the handler suspends; nothing is done
\* to the requests already in flight.
SendRequest(movieName, genre, language) ==
    reqs' = Append(reqs, Pending(movieName, genre, language))

\* Lines 13-31: from the submit event to the first await. An empty name
\* alerts and returns; otherwise the loading state is entered and the
\* request is sent.
Submit ==
    LET movieName == Trim(movieInput)
        genre == genreSelect
        language == languageSelect
    IN  IF movieName = <<>>
        THEN /\ lastAlert' = AlertEnterName
             /\ UNCHANGED loggedError
             /\ UNCHANGED <<movieInput, genreSelect, languageSelect, loading,
                            notFound, results, featuredSection, featured,
                            suggestionsGrid, resultsGrid, resultsTitle, reqs,
                            favVars>>
        ELSE /\ Len(reqs) < MaxReq
             /\ EnterLoading
             /\ SendRequest(movieName, genre, language)
             /\ UNCHANGED <<movieInput, genreSelect, languageSelect,
                            featuredSection, suggestionsGrid, resultsGrid,
                            resultsTitle, lastAlert, loggedError, favVars>>

\* What the try block can throw: the rejection of fetch (no response), the
\* rejection of response.json() (the body is no JSON), and the TypeError of
\* reading a property of null or calling a forEach that is no function.
FetchError == "fetch rejected"
ParseError == "SyntaxError"
TypeError == "TypeError"

\* catch (lines 66-68) and finally (69-71).
Catch(error) == loggedError' = error /\ lastAlert' = AlertFailed
\* Mutant: no finally block.
FinallySkipped == UNCHANGED loading

Finally == loading' = "none"

\* The fetch never settles: the handler stays suspended at line 31.
FetchHang(r) ==
    /\ r \in 1..Len(reqs)
    /\ reqs[r].stage = "fetch"
    /\ reqs' = [reqs EXCEPT ![r].stage = "hung"]
    /\ UNCHANGED <<movieInput, genreSelect, languageSelect, loading, notFound,
                   results, featuredSection, featured, suggestionsGrid,
                   resultsGrid, resultsTitle, lastAlert, loggedError, favVars>>

\* Mutant: the spinner is hidden as soon as the response arrives.
FetchResolveHidesSpinner(r) ==
    /\ r \in 1..Len(reqs)
    /\ reqs[r].stage = "fetch"
    /\ reqs' = [reqs EXCEPT ![r].stage = "json"]
    /\ loading' = "none"
    /\ UNCHANGED <<movieInput, genreSelect, languageSelect, notFound,
                   results, featuredSection, featured, suggestionsGrid,
                   resultsGrid, resultsTitle, lastAlert, loggedError, favVars>>

\* The fetch resolves with a response: the handler goes on to line 42 and
\* suspends in response.json().
FetchResolve(r) ==
    /\ r \in 1..Len(reqs)
    /\ reqs[r].stage = "fetch"
    /\ reqs' = [reqs EXCEPT ![r].stage = "json"]
    /\ UNCHANGED <<movieInput, genreSelect, languageSelect, loading, notFound,
                   results, featuredSection, featured, suggestionsGrid,
                   resultsGrid, resultsTitle, lastAlert, loggedError, favVars>>

\* The fetch rejects (network failure): catch, then finally.
FetchReject(r) ==
    /\ r \in 1..Len(reqs)
    /\ reqs[r].stage = "fetch"
    /\ Catch(FetchError)
    /\ Finally
    /\ reqs' = [reqs EXCEPT ![r] = Finished]
    /\ UNCHANGED <<movieInput, genreSelect, languageSelect, notFound, results,
                   featuredSection, featured, suggestionsGrid, resultsGrid,
                   resultsTitle, favVars>>

\* response.json() rejects (the body is not JSON): catch, then finally.
JsonReject(r) ==
    /\ r \in 1..Len(reqs)
    /\ reqs[r].stage = "json"
    /\ Catch(ParseError)
    /\ Finally
    /\ reqs' = [reqs EXCEPT ![r] = Finished]
    /\ UNCHANGED <<movieInput, genreSelect, languageSelect, notFound, results,
                   featuredSection, featured, suggestionsGrid, resultsGrid,
                   resultsTitle, favVars>>

\* Mutant: the not_found branch also empties the results grid.
NotFoundBranchClearsResults(r, data) ==
    /\ suggestionsGrid' = ForEachAppended(data.suggestions)
    /\ IF ForEachThrows(data.suggestions)
       THEN Catch(TypeError) /\ UNCHANGED notFound
       ELSE notFound' = "block" /\ UNCHANGED <<lastAlert, loggedError>>
    /\ resultsGrid' = <<>>
    /\ UNCHANGED <<results, resultsTitle>>

\* Lines 44-50: the not_found branch. The grid is emptied, then a card is
\* appended per suggestion; a throw in the loop skips line 49 and ends in
\* catch.
NotFoundBranch(r, data) ==
    /\ suggestionsGrid' = ForEachAppended(data.suggestions)
    /\ IF ForEachThrows(data.suggestions)
       THEN Catch(TypeError) /\ UNCHANGED notFound
       ELSE notFound' = "block" /\ UNCHANGED <<lastAlert, loggedError>>
    /\ UNCHANGED <<results, resultsGrid, resultsTitle>>

\* Mutant: the title is built from what the form holds when the response
\* arrives.
TitleQueryFromForm(r) == <<Trim(movieInput), genreSelect, languageSelect>>

\* The values lines 52-54 build the title from: the constants captured at
\* lines 16-18 of the same invocation.
TitleQuery(r) == <<reqs[r].movieName, reqs[r].genre, reqs[r].language>>

\* Lines 51-62: the recommendations branch. The title is set, the grid is
\* emptied, then a card is appended per recommendation; a throw in the loop
\* skips line 61 and ends in catch.
RecommendationsBranch(r, data) ==
    /\ resultsTitle' = Title(TitleQuery(r)[1], TitleQuery(r)[2], TitleQuery(r)[3])
    /\ resultsGrid' = ForEachAppended(data.recommendations)
    /\ IF ForEachThrows(data.recommendations)
       THEN Catch(TypeError) /\ UNCHANGED results
       ELSE results' = "block" /\ UNCHANGED <<lastAlert, loggedError>>
    /\ UNCHANGED <<notFound, suggestionsGrid>>

\* Lines 63-65: neither branch applies.
NoRecommendationsBranch ==
    /\ lastAlert' = AlertNoRecs
    /\ UNCHANGED loggedError
    /\ UNCHANGED <<notFound, results, suggestionsGrid, resultsGrid, resultsTitle>>

\* Mutant: a JSON null is taken for an answer without recommendations.
NullDataAlertsNoRecs ==
    /\ lastAlert' = AlertNoRecs
    /\ UNCHANGED loggedError
    /\ UNCHANGED <<notFound, results, suggestionsGrid, resultsGrid, resultsTitle>>

\* Line 44 on a JSON null: reading data.not_found throws, so catch runs.
NullDataThrows ==
    /\ Catch(TypeError)
    /\ UNCHANGED <<notFound, results, suggestionsGrid, resultsGrid, resultsTitle>>

\* response.json() resolves with data: lines 44-71 run to the end.
JsonResolve(r, data) ==
    /\ r \in 1..Len(reqs)
    /\ reqs[r].stage = "json"
    /\ IF data.kind = "null" THEN NullDataThrows
       ELSE IF Truthy(data.not_found) THEN NotFoundBranch(r, data)
       ELSE IF Truthy(data.recommendations) /\ data.recommendations.len > 0
            THEN RecommendationsBranch(r, data)
       ELSE NoRecommendationsBranch
    /\ Finally
    /\ reqs' = [reqs EXCEPT ![r] = Finished]
    /\ UNCHANGED <<movieInput, genreSelect, languageSelect, featuredSection,
                   featured, favVars>>

\* ------------------------------------------------------------ toggleFav
\* The JSON bodies /api/favorites can answer with: null, or an object whose
\* success is true, false or absent.
FavBodies == {"null", "true", "false", "undefined"}
SuccessTruthy(body) == body = "true"

\* classList.toggle('favorited') on button b.
ToggleClass(b) == favorited' = [favorited EXCEPT ![b] = ~@]

\* Lines 120-125: the click handler up to the first await. The button is
\* taken from the event, the request is sent, no class is touched.
ToggleFavCall(b) ==
    /\ Len(toggles) < MaxToggles
    /\ toggles' = Append(toggles, [btn |-> b, stage |-> "fetch", got |-> ""])
    /\ UNCHANGED <<favorited, searchVars>>

\* The fetch resolves: toggleFav suspends in response.json() (line 140).
FavFetchResolve(t) ==
    /\ t \in 1..Len(toggles)
    /\ toggles[t].stage = "fetch"
    /\ toggles' = [toggles EXCEPT ![t].stage = "json"]
    /\ UNCHANGED <<favorited, searchVars>>

\* The fetch rejects: catch logs the error (lines 144-146).
FavFetchReject(t) ==
    /\ t \in 1..Len(toggles)
    /\ toggles[t].stage = "fetch"
    /\ toggles' = [toggles EXCEPT ![t].stage = "done", ![t].got = "error"]
    /\ UNCHANGED <<favorited, searchVars>>

\* response.json() rejects: catch logs the error.
FavJsonReject(t) ==
    /\ t \in 1..Len(toggles)
    /\ toggles[t].stage = "json"
    /\ toggles' = [toggles EXCEPT ![t].stage = "done", ![t].got = "error"]
    /\ UNCHANGED <<favorited, searchVars>>

\* Mutant: the class is toggled on any parsed answer.
OnFavDataIgnoresSuccess(b, body) ==
    IF body # "null" THEN ToggleClass(b) ELSE UNCHANGED favorited

\* Lines 141-143 once the body is parsed: data.success of a null body
\* throws into catch; a truthy success toggles the class.
OnFavData(b, body) ==
    IF body # "null" /\ SuccessTruthy(body) THEN ToggleClass(b)
    ELSE UNCHANGED favorited

FavJsonResolve(t, body) ==
    /\ t \in 1..Len(toggles)
    /\ toggles[t].stage = "json"
    /\ OnFavData(toggles[t].btn, body)
    /\ toggles' = [toggles EXCEPT ![t].stage = "done", ![t].got = body]
    /\ UNCHANGED searchVars

\* ------------------------------------------------------- specifications
Settle ==
    \/ \E r \in 1..MaxReq : FetchResolve(r)
    \/ \E r \in 1..MaxReq : FetchReject(r)
    \/ \E r \in 1..MaxReq : JsonReject(r)
    \/ \E r \in 1..MaxReq : \E data \in BodiesOf[r] : JsonResolve(r, data)

Next ==
    \/ EditMovie
    \/ EditGenre
    \/ EditLanguage
    \/ Submit
    \/ \E r \in 1..MaxReq : FetchHang(r)
    \/ Settle

\* Every behaviour of the search form.
Spec == Init /\ [][Next]_vars

\* Overlapping submits of the name "a" that differ in the genre, under
\* either language: requests that hang, fail and are answered in any order.
InitOverlap ==
    \E hasFeatured \in BOOLEAN, language \in Languages :
        PageLoad(hasFeatured, NoneFavorited, <<"a">>, "", language)

NextOverlap ==
    \/ EditGenre
    \/ Submit
    \/ \E r \in 1..MaxReq : FetchHang(r)
    \/ Settle

SpecOverlap == InitOverlap /\ [][NextOverlap]_vars

\* The search form of a user who submits again only once the earlier
\* request has settled; every field of the form is edited at any time.
NoneInFlight == \A r \in 1..Len(reqs) : reqs[r].stage = "done"

SubmitWhenIdle == (Trim(movieInput) # <<>> => NoneInFlight) /\ Submit

NextSequential ==
    \/ EditMovie
    \/ EditGenre
    \/ EditLanguage
    \/ SubmitWhenIdle
    \/ Settle

InitSequential == PageLoad(TRUE, NoneFavorited, <<>>, "", "")

SpecSequential == InitSequential /\ [][NextSequential]_vars

\* The favorite buttons.
NextFav ==
    \/ \E b \in Buttons : ToggleFavCall(b)
    \/ \E t \in 1..MaxToggles : FavFetchResolve(t)
    \/ \E t \in 1..MaxToggles : FavFetchReject(t)
    \/ \E t \in 1..MaxToggles : FavJsonReject(t)
    \/ \E t \in 1..MaxToggles : \E body \in FavBodies : FavJsonResolve(t, body)

InitFav == \E fav \in [Buttons -> BOOLEAN] : PageLoad(TRUE, fav, <<>>, "", "")

SpecFav == InitFav /\ [][NextFav]_vars

\* ================================================================ claims
Visible(display) == display # "none"

VisiblePanels ==
    {p \in {"results", "notFound", "featured"} :
        \/ p = "results" /\ Visible(results)
        \/ p = "notFound" /\ Visible(notFound)
        \/ p = "featured" /\ featuredSection /\ Visible(featured)}

\* A step in which a valid submit sends its request.
SubmitStep == Len(reqs') = Len(reqs) + 1

\* A step in which the handler invocation r runs to its end.
Finishes(r) ==
    /\ r \in 1..Len(reqs)
    /\ reqs[r].stage \in {"fetch", "json"}
    /\ reqs'[r].stage = "done"

\* The field holds nothing but whitespace.
Blank(text) == \A i \in 1..Len(text) : text[i] = " "

\* A well-formed movie list: an array without null elements.
IsMovieList(v) == v.t = "array" /\ \A i \in 1..Len(v.items) : v.items[i] # NullMovie

\* C1, as stated: once a valid search has been submitted, exactly one of
\* the three panels (results, not-found, featured) is visible.
C1_ExactlyOnePanel == reqs # <<>> => Cardinality(VisiblePanels) = 1

\* C1, amended: once a valid search has been submitted the featured panel
\* is never visible again; every valid submit hides all three panels; after
\* it a panel becomes visible only in a step that finishes a handler, one
\* panel at most per step, and no such step hides a panel. So zero, one or
\* two (results and not-found) panels are visible.
C1_PanelsFollowResponses ==
    /\ [](reqs # <<>> => "featured" \notin VisiblePanels)
    /\ [][/\ SubmitStep => VisiblePanels' = {}
          /\ ~SubmitStep =>
                /\ VisiblePanels \subseteq VisiblePanels'
                /\ Cardinality(VisiblePanels' \ VisiblePanels) <= 1
                /\ (VisiblePanels' # VisiblePanels => \E r \in 1..MaxReq : Finishes(r))]_vars

\* C1 witness: the responses of two overlapping submits have shown both the
\* not-found and the results panel.
C1_BothPanelsVisible == VisiblePanels = {"results", "notFound"}

\* C2: a submit with an empty or whitespace-only name sends no request,
\* shows the 'Please enter a movie name' alert and leaves the spinner and
\* the three panels as they were.
C2_BlankSubmitOnlyAlerts ==
    [][/\ Blank(movieInput) => ~SubmitStep
       /\ (Submit /\ Blank(movieInput)) =>
            /\ lastAlert' = AlertEnterName
            /\ UNCHANGED <<reqs, loading, notFound, results, featured>>]_vars

\* C2 witness: the alert is up, the name is whitespace only, and the
\* request of an earlier submit keeps the spinner visible.
C2_BlankAlertWhileLoading ==
    /\ lastAlert = AlertEnterName
    /\ movieInput = <<" ">>
    /\ loading = "flex"
    /\ Len(reqs) = 1

\* C3: in the state right after the handler of a valid submit finishes, on
\* any branch, the loading spinner is hidden.
C3_SpinnerHiddenAtEnd ==
    [][\A r \in 1..MaxReq : Finishes(r) => loading' = "none"]_vars

\* C3 witness: a handler has ended in the failure alert and the spinner is
\* hidden, the request of an overlapping submit still in flight.
C3_FinishedAndHidden ==
    /\ \E r \in 1..Len(reqs) : reqs[r].stage = "done"
    /\ \E r \in 1..Len(reqs) : reqs[r].stage \in {"fetch", "json"}
    /\ lastAlert = AlertFailed
    /\ loading = "none"

\* The cards of a well-formed movie list are in the grid, one per movie, in
\* the order of the list.
HoldsCardsOf(grid, list) ==
    /\ Len(grid) = list.len
    /\ \A i \in 1..Len(grid) : grid[i].movie = list.items[i]

\* A step in which response.json() of the invocation r has settled.
Parsed(r) ==
    /\ r \in 1..Len(reqs)
    /\ reqs[r].stage = "json"
    /\ reqs'[r].stage = "done"

\* The bodies with a truthy not_found and a well-formed suggestions list.
NotFoundBodies ==
    [r \in 1..MaxReq |->
        {data \in Bodies(r) : Truthy(data.not_found) /\ IsMovieList(data.suggestions)}]

\* The handler invocation r takes the not_found branch on a well-formed
\* suggestions list in this step.
HandlesNotFound(r, data) == Parsed(r) /\ JsonResolve(r, data)

\* C4, as stated: when a response with a truthy not_found and N suggestions
\* has been handled, the suggestions grid holds exactly the N cards, the
\* not-found panel is visible and the results panel is hidden.
C4_NotFoundHidesResults ==
    [][\A r \in 1..MaxReq : \A data \in NotFoundBodies[r] :
        HandlesNotFound(r, data) =>
            /\ HoldsCardsOf(suggestionsGrid', data.suggestions)
            /\ Visible(notFound')
            /\ ~Visible(results')]_vars

\* C4, amended: when a response with a truthy not_found and N suggestions
\* has been handled, the suggestions grid holds exactly the N cards, in
\* order, and the not-found panel is visible; the results panel is left as
\* it was, hidden unless the recommendations of an overlapping submit were
\* shown since the latest submit.
C4_NotFoundKeepsResults ==
    [][\A r \in 1..MaxReq : \A data \in NotFoundBodies[r] :
        HandlesNotFound(r, data) =>
            /\ HoldsCardsOf(suggestionsGrid', data.suggestions)
            /\ Visible(notFound')
            /\ results' = results]_vars

\* C4 witness: the suggestions of one submit are shown, a full list of
\* them, next to the results of an overlapping submit.
C4_SuggestionsNextToResults ==
    /\ Visible(notFound)
    /\ Len(suggestionsGrid) = MaxMovies
    /\ Visible(results)

\* The title has the given pieces from position at on.
HasAt(title, at, pieces) ==
    /\ Len(title) >= at + Len(pieces) - 1
    /\ SubSeq(title, at, at + Len(pieces) - 1) = pieces

\* The title of a query: 'Movies similar to "<name>"', then ' in <genre>'
\* iff the genre is not empty, then ' (<language>)' iff the language is not
\* empty, and nothing else.
IsTitleOf(title, name, genre, language) ==
    LET afterName == Len(name) + 3
        afterGenre == IF genre # "" THEN afterName + 2 ELSE afterName
        end == IF language # "" THEN afterGenre + 3 ELSE afterGenre
    IN  /\ HasAt(title, 1, <<"Movies similar to \"">>)
        /\ HasAt(title, 2, name)
        /\ HasAt(title, Len(name) + 2, <<"\"">>)
        /\ genre # "" => HasAt(title, afterName, <<" in ", genre>>)
        /\ language # "" => HasAt(title, afterGenre, <<" (", language, ")">>)
        /\ Len(title) = end - 1

\* Is the body of neither documented shape: not (not_found with a
\* suggestions list) and not (a non-empty recommendations list).
IsMalformed(data) ==
    /\ ~(data.kind = "object" /\ Truthy(data.not_found) /\ IsMovieList(data.suggestions))
    /\ ~(data.kind = "object" /\ ~Truthy(data.not_found)
            /\ IsMovieList(data.recommendations) /\ data.recommendations.len > 0)

MalformedBodies == [r \in 1..MaxReq |-> {data \in Bodies(r) : IsMalformed(data)}]

LacksRecommendations(data) ==
    /\ data.kind = "object"
    /\ data.not_found.t \in {"false", "undefined"}
    /\ data.recommendations.t = "undefined" \/ data.recommendations.len = 0

\* The grid holds the cards of the movies before the first null element of
\* a list, and nothing when the value is no array.
HoldsCardsBeforeNull(grid, v) ==
    IF v.t # "array" THEN grid = <<>>
    ELSE /\ Len(grid) < v.len
         /\ \A i \in 1..Len(grid) : grid[i].movie = v.items[i]
         /\ v.items[Len(grid) + 1] = NullMovie

C8_HungKeepsSpinner ==
    (\E r \in 1..Len(reqs) : reqs[r].stage = "hung") => loading = "flex"

\* C8, amended: a request whose fetch never settles never finishes its
\* handler, and the spinner is hidden only by a step that finishes a
\* handler; so the spinner of a hung request stays visible until the handler
\* of another submit finishes, which hides it.
C8_SpinnerHiddenOnlyByFinish ==
    /\ [][\A r \in 1..Len(reqs) : reqs[r].stage = "hung" => reqs'[r].stage = "hung"]_vars
    /\ [][(loading = "flex" /\ loading' # "flex") => \E r \in 1..MaxReq : Finishes(r)]_vars

\* C8 witness: a request hangs, another has finished, the spinner shows.
C8_HungAndSpinning ==
    /\ \E r \in 1..Len(reqs) : reqs[r].stage = "hung"
    /\ \E r \in 1..Len(reqs) : reqs[r].stage = "done"
    /\ loading = "flex"

\* The bodies without a truthy not_found and with a well-formed, non-empty
\* recommendations list.
RecommendationBodies ==
    [r \in 1..MaxReq |->
        {data \in Bodies(r) :
            /\ ~Truthy(data.not_found)
            /\ IsMovieList(data.recommendations)
            /\ data.recommendations.len > 0}]

\* C9: a valid submit adds one request and leaves every earlier invocation
\* as it is, and a recommendations response is rendered when it arrives,
\* whether or not its submit is the latest.
C9_SubmitsAreIndependent ==
    /\ [][SubmitStep =>
            /\ \A r \in 1..Len(reqs) : reqs'[r] = reqs[r]
            /\ reqs'[Len(reqs')].stage = "fetch"]_vars
    /\ [][\A r \in 1..MaxReq : \A data \in RecommendationBodies[r] :
            (Parsed(r) /\ JsonResolve(r, data)) =>
                /\ HoldsCardsOf(resultsGrid', data.recommendations)
                /\ Visible(results')]_vars

\* C9 witness: two overlapping submits have both rendered recommendations
\* (no alert, no suggestions shown) and the grid holds those of the first.
C9_StaleResultsShown ==
    /\ Len(reqs) = 2
    /\ \A r \in 1..2 : reqs[r].stage = "done"
    /\ lastAlert = ""
    /\ ~Visible(notFound)
    /\ Visible(results)
    /\ resultsGrid # <<>>
    /\ resultsGrid[1].movie.req = 1

\* C7: when a non-empty recommendations list is handled (the step that
\* ends invocation r puts the cards of r's response into the results
\* grid), the results title is that of the name, genre and language read
\* when the request was submitted, whatever the form holds when the
\* response arrives.
C7_TitleOfSubmittedQuery ==
    [][\A r \in 1..MaxReq :
        (/\ Parsed(r)
         /\ resultsGrid' # <<>>
         /\ resultsGrid'[1].movie.req = r) =>
            IsTitleOf(resultsTitle', reqs[r].movieName, reqs[r].genre, reqs[r].language)]_vars

\* C7 witness: the title names the genre of the submit and no language,
\* while the form now holds no genre and a language.
C7_TitleDiffersFromForm ==
    /\ Visible(results)
    /\ resultsTitle = <<"Movies similar to \"", "a", "\"", " in ", "Action">>
    /\ genreSelect = ""
    /\ languageSelect = "en"
    /\ Blank(movieInput)

TruthyNotFoundBodies == [r \in 1..MaxReq |-> {data \in Bodies(r) : Truthy(data.not_found)}]

\* C10: the results title and the results grid are replaced together, by
\* the step that handles a submit's recommendations, with the title of that
\* submit's query and cards of that submit's response only; a not_found
\* response and a failed request (the fetch rejects, or the body is no
\* JSON) change neither.
C10_TitleAndGridTogether ==
    /\ [][(resultsTitle' # resultsTitle \/ resultsGrid' # resultsGrid) =>
            \E r \in 1..Len(reqs) :
                /\ Finishes(r)
                /\ IsTitleOf(resultsTitle', reqs[r].movieName, reqs[r].genre,
                             reqs[r].language)
                /\ \A i \in 1..Len(resultsGrid') : resultsGrid'[i].movie.req = r]_vars
    /\ [][\A r \in 1..MaxReq :
            (\/ FetchReject(r)
             \/ JsonReject(r)
             \/ Parsed(r) /\ \E data \in TruthyNotFoundBodies[r] : JsonResolve(r, data))
            => UNCHANGED <<resultsTitle, resultsGrid>>]_vars

\* C10 witness: of two overlapping submits the first, without a genre, was
\* rendered last: the grid holds its cards under its title, while the form
\* holds the genre of the second.
C10_StaleTitleWithItsGrid ==
    /\ Len(reqs) = 2
    /\ \A r \in 1..2 : reqs[r].stage = "done"
    /\ lastAlert = ""
    /\ ~Visible(notFound)
    /\ genreSelect = "Action"
    /\ resultsGrid # <<>>
    /\ resultsGrid[1].movie.req = 1
    /\ IsTitleOf(resultsTitle, <<"a">>, "", languageSelect)

\* C5: the class 'favorited' of a button changes in a step if and only if
\* that step receives a success-true response to a toggle of this button;
\* sending a request, a success-false response and a failed fetch or parse
\* leave it unchanged.
C5_FlipPerSuccessResponse ==
    [][\A b \in Buttons :
        (favorited'[b] # favorited[b]) <=>
            \E t \in 1..Len(toggles) :
                /\ toggles[t].btn = b
                /\ toggles[t].stage = "json"
                /\ toggles'[t].stage = "done"
                /\ toggles'[t].got = "true"]_vars

\* C5 witness: of two overlapping toggles of one button the second has been
\* acknowledged while the first is still in flight.
C5_SecondToggleAcknowledgedFirst ==
    /\ Len(toggles) = 2
    /\ toggles[1].btn = toggles[2].btn
    /\ toggles[1].stage = "fetch"
    /\ toggles[2].got = "true"

====
